---- MODULE Spec2Model ----
(***************************************************************************)
(* API-Assertify backend (src/server.js): an Express application that      *)
(* resolves the caller's identity from a Firebase bearer token, relays a   *)
(* caller-described HTTP request through axios, records the relayed call   *)
(* in the Firestore collection "history" for authenticated callers, and    *)
(* keeps per-user "collections" and "collection_items".                    *)
(*                                                                         *)
(* Every incoming call is one async task.  A task runs without             *)
(* interruption from one await to the next, so each action below is the    *)
(* code that runs when one awaited promise settles: the token oracle, the  *)
(* outbound HTTP call, a Firestore write or a Firestore query.  Each of    *)
(* these may settle with a value or reject; the rejection is an input of   *)
(* the action.                                                             *)
(***************************************************************************)
EXTENDS Integers, Sequences, FiniteSets, Bags, TLC

VARIABLES
    calls,              \* the bag of calls being handled: req, req.user, the handler's locals, res
    history,            \* Firestore collection "history", in document order
    collections,        \* Firestore collection "collections"
    collection_items,   \* Firestore collection "collection_items"
    now,                \* the time new Date() reads
    lastGet             \* the last reply of a GET route, when no write has followed it

vars == <<calls, history, collections, collection_items, now, lastGet>>

stores == <<history, collections, collection_items>>

(***************************************************************************)
(* Bounds of the model.                                                    *)
(***************************************************************************)
MaxInterleaved == 2
MaxHistory == 1
MaxCollections == 1
MaxItems == 1
MaxBulk == 52

(***************************************************************************)
(* JavaScript values.                                                      *)
(***************************************************************************)
Null == "null"
Undefined == "undefined"

\* !v for the string-valued fields of a JSON body
Falsy(v) == v \in {Undefined, Null, ""}

\* v || d
OrElse(v, d) == IF Falsy(v) THEN d ELSE v

\* method.toUpperCase()
ToUpperCase(m) == IF m = "get" THEN "GET" ELSE IF m = "post" THEN "POST" ELSE m

\* the id Firestore generates for the next document of a collection: one that
\* no document of any collection has
AutoId(prefix, store) == prefix \o ToString(Len(store) + 1)

(***************************************************************************)
(* Identity oracle: firebaseAuth.verifyIdToken.                            *)
(***************************************************************************)
Users == {"A", "B"}

Identities == Users \cup {Null}

\* the uid a token decodes to, Null for a token the oracle rejects
TokenSubject(token) == IF token = "tokA" THEN "A" ELSE IF token = "tokB" THEN "B" ELSE Null

\* authorization headers, as the pieces between single spaces
AuthHeaders ==
    { <<>>,                         \* no header
      <<"Basic", "tokA">>,          \* not a Bearer header
      <<"Bearer", "tokA">>,
      <<"Bearer", "tokB">>,
      <<"Bearer", "bad">> }

\* authHeader && authHeader.startsWith("Bearer ")
IsBearer(h) == Len(h) >= 2 /\ h[1] = "Bearer"

\* authHeader.split(" ")[1]
TokenOf(h) == h[2]

(***************************************************************************)
(* Requests.                                                               *)
(***************************************************************************)
NoParams == <<>>
SomeParams == << <<"k", "v">> >>

\* bodies of POST /proxy: two that pass validation, two that fail it
ProxyBodies ==
    { [url |-> "http://up/a", method |-> "get",  headers |-> <<>>, params |-> SomeParams, body |-> Null],
      [url |-> "http://up/b", method |-> "POST", headers |-> << <<"h", "1">> >>, params |-> NoParams, body |-> "payload"],
      [url |-> "",            method |-> "GET",  headers |-> <<>>, params |-> NoParams,   body |-> Null],
      [url |-> "http://up/a", method |-> Undefined, headers |-> <<>>, params |-> NoParams, body |-> Null] }

\* the bodies of POST /proxy of the scenario: one that passes validation, one
\* whose url new URL refuses, one that fails validation
FewProxyBodies ==
    { [url |-> "http://up/a", method |-> "get",  headers |-> <<>>, params |-> SomeParams, body |-> Null],
      [url |-> "not a url",   method |-> "GET",  headers |-> <<>>, params |-> SomeParams, body |-> Null],
      [url |-> "", method |-> "GET",  headers |-> <<>>, params |-> NoParams, body |-> Null] }

CollectionBodies == { [name |-> "Smoke Tests"], [name |-> ""] }

NoBody == [empty |-> TRUE]

Routed(route, headers, bodies) == { [route |-> route, auth |-> h, body |-> b] : h \in headers, b \in bodies }

\* the ids of the documents of a Firestore collection
IdsOf(store) == { store[i].id : i \in 1..Len(store) }

\* ids a caller may name: generated ones, one never generated, an empty one
NamedIds(store) == IdsOf(store) \cup {"ghost", ""}

\* bodies of POST /collection-items: the request named is the first one recorded,
\* whether it exists yet or not, or none
ItemBodies == { [collectionId |-> k, requestId |-> r] : k \in NamedIds(collections), r \in {"h1", ""} }

\* the headers of the callers of POST /proxy: none, user A, user B
FewHeaders == { <<>>, <<"Bearer", "tokA">>, <<"Bearer", "tokB">> }

ProxyRequests == Routed("POST /proxy", FewHeaders, ProxyBodies)

Requests ==
    Routed("GET /", AuthHeaders, {NoBody})
    \cup Routed("POST /proxy", AuthHeaders, FewProxyBodies)
    \cup Routed("POST /collections", AuthHeaders, CollectionBodies)
    \cup Routed("POST /collection-items", AuthHeaders, ItemBodies)
    \cup Routed("GET /collections", AuthHeaders, {NoBody})

\* the requests to GET /history
HistoryRequests == Routed("GET /history", AuthHeaders, {NoBody})

\* the reads of two users and a guest, and the writes that can change what they read
ReadRequests ==
    Routed("GET /history", FewHeaders, {NoBody})
    \cup Routed("GET /collections", FewHeaders, {NoBody})
    \cup Routed("POST /proxy", FewHeaders \ {<<>>}, {b \in FewProxyBodies : b.url = "http://up/a"})
    \cup Routed("POST /collections", FewHeaders \ {<<>>}, {b \in CollectionBodies : b.name # ""})
    \cup Routed("POST /collection-items", FewHeaders \ {<<>>}, {b \in ItemBodies : b.collectionId \in IdsOf(collections) /\ b.requestId # ""})

\* the requests of two users to the collection routes: collections of either,
\* and items filed by either in any collection that can be named
ItemRequests ==
    Routed("POST /collections", FewHeaders \ {<<>>}, {b \in CollectionBodies : b.name # ""})
    \cup Routed("POST /collection-items", FewHeaders \ {<<>>}, ItemBodies)

\* the upstream answer of the scenario
OkResponses == { [status |-> 200, data |-> "upstream body"] }

GetRoutes == {"GET /history", "GET /collections"}

\* what an upstream server may answer
UpstreamResponses == { [status |-> s, data |-> "upstream body"] : s \in {200, 404} }

(***************************************************************************)
(* A call: the request, req.user, the handler's locals and the reply.      *)
(***************************************************************************)
NoRes == [http |-> 0]

\* the call that request r starts
NewCall(r) ==
    [ pc       |-> "arrived",
      req      |-> r,
      user     |-> Undefined,   \* req.user
      oracle   |-> "none",      \* how verifyIdToken settled: none, ok, threw
      handled  |-> FALSE,       \* next() has passed the call to its route handler
      sent     |-> <<>>,        \* the axios config dispatched, if any
      response |-> <<>>,        \* the axios response, if any
      doc      |-> <<>>,        \* the document handed to add(), if any
      snapshot |-> <<>>,        \* snapshot.docs of GET /collections
      caught   |-> FALSE,       \* the handler's catch block ran
      res      |-> NoRes ]

\* res.status(code).json(body)
Reply(call, code, body) == [call EXCEPT !.pc = "done", !.res = [http |-> code, body |-> body]]

\* the catch block of a handler, answering code with body
Catch(call, code, body) == [Reply(call, code, body) EXCEPT !.caught = TRUE]

\* the handler suspends at an await
Await(call, pc) == [call EXCEPT !.pc = pc]

\* the calls in progress
InProgress == BagToSet(calls)

\* the calls in progress that are at pc
At(pc) == { call \in InProgress : call.pc = pc }

(***************************************************************************)
(* Firestore queries.                                                      *)
(***************************************************************************)
\* .limit(50)
Limit == 50

\* .orderBy("createdAt", "desc"): the newest first, documents of equal
\* createdAt in document order
OrderByCreatedAtDesc(docs) ==
    LET n == Len(docs)
        place == [ i \in 1..n |->
                     Cardinality({ j \in 1..n : \/ docs[j].createdAt > docs[i].createdAt
                                                \/ docs[j].createdAt = docs[i].createdAt /\ j <= i }) ]
    IN  [ k \in 1..n |-> docs[CHOOSE i \in 1..n : place[i] = k] ]

\* .limit(n)
Take(docs, n) == SubSeq(docs, 1, IF Len(docs) < n THEN Len(docs) ELSE n)

\* HistoryQuery without its where clause
HistoryQueryUnscoped(uid, store) == Take(OrderByCreatedAtDesc(store), Limit)

\* history .where("userId", "==", uid).orderBy("createdAt", "desc").limit(50)
HistoryQuery(uid, store) ==
    LET Mine(d) == d.userId = uid
    IN  Take(OrderByCreatedAtDesc(SelectSeq(store, Mine)), Limit)

\* snapshot.docs.map(doc => ({ id, url, ..., createdAt })) of GET /history
HistoryView(docs) ==
    [ i \in 1..Len(docs) |->
        [ id             |-> docs[i].id,
          url            |-> OrElse(docs[i].url, ""),
          method         |-> OrElse(docs[i].method, ""),
          headers        |-> docs[i].headers,
          params         |-> docs[i].params,
          body           |-> OrElse(docs[i].body, Null),
          responseStatus |-> docs[i].responseStatus,
          responseData   |-> docs[i].responseData,
          createdAt      |-> docs[i].createdAt ] ]

\* CollectionsQuery without its where clause: one list of collections for everybody
CollectionsQueryShared(uid, store) == OrderByCreatedAtDesc(store)

\* collections .where("userId", "==", uid).orderBy("createdAt", "desc")
CollectionsQuery(uid, store) ==
    LET Mine(d) == d.userId = uid
    IN  OrderByCreatedAtDesc(SelectSeq(store, Mine))

\* collection_items .where("collectionId", "==", id).where("userId", "==", uid),
\* then .map(d => d.data()?.requestId).filter(Boolean)
ItemsQuery(id, uid, store) ==
    LET Mine(d) == d.collectionId = id /\ d.userId = uid
        Truthy(d) == ~Falsy(d.requestId)
        docs == SelectSeq(SelectSeq(store, Mine), Truthy)
    IN  [ i \in 1..Len(docs) |-> docs[i].requestId ]

\* the objects GET /collections builds from its snapshot
CollectionsView(docs, uid, items) ==
    [ i \in 1..Len(docs) |->
        [ id        |-> docs[i].id,
          name      |-> OrElse(docs[i].name, "Untitled Collection"),
          items     |-> ItemsQuery(docs[i].id, uid, items),
          createdAt |-> docs[i].createdAt ] ]

\* db.collection("collections").doc(id).get(): the document, if it exists
DocGet(id, store) ==
    LET Same(d) == d.id = id
    IN  SelectSeq(store, Same)

\* what add() stores: the data with the generated id
Stored(doc, id) == [ f \in DOMAIN doc \cup {"id"} |-> IF f = "id" THEN id ELSE doc[f] ]

(***************************************************************************)
(* The route handlers, from their entry to their first await or reply.     *)
(***************************************************************************)
\* new URL(url) accepts the url
ValidUrl(url) == url \in {"http://up/a", "http://up/b"}

\* finalUrl: the url with the params appended for a GET that has some
FinalUrl(b) ==
    IF ToUpperCase(b.method) = "GET" /\ Len(b.params) > 0
    THEN [base |-> b.url, query |-> b.params]
    ELSE [base |-> b.url, query |-> <<>>]

\* ProxyStart rejecting only a body that lacks both url and method
ProxyStartLax(call) ==
    LET b == call.req.body
    IN  IF Falsy(b.url) /\ Falsy(b.method)
        THEN Reply(call, 400, [success |-> FALSE, error |-> "Missing url or method"])
        ELSE IF ToUpperCase(b.method) = "GET" /\ Len(b.params) > 0 /\ ~ValidUrl(b.url)
        THEN Catch(call, 500, [success |-> FALSE, response |-> [error |-> "Invalid URL", requestId |-> Null]])
        ELSE Await([call EXCEPT !.sent = << [url |-> FinalUrl(b), method |-> b.method,
                                             headers |-> b.headers, data |-> b.body] >>], "axios")

\* POST /proxy up to the await on axios
ProxyStart(call) ==
    LET b == call.req.body
    IN  IF Falsy(b.url) \/ Falsy(b.method)
        THEN Reply(call, 400, [success |-> FALSE, error |-> "Missing url or method"])
        ELSE IF ToUpperCase(b.method) = "GET" /\ Len(b.params) > 0 /\ ~ValidUrl(b.url)
        THEN Catch(call, 500, [success |-> FALSE, response |-> [error |-> "Invalid URL", requestId |-> Null]])
        ELSE Await([call EXCEPT !.sent = << [url |-> FinalUrl(b), method |-> b.method,
                                             headers |-> b.headers, data |-> b.body] >>], "axios")

\* the unified response structure of POST /proxy
ProxyJson(response, requestId) ==
    [ success  |-> TRUE,
      response |-> [status |-> response.status, data |-> response.data, requestId |-> requestId] ]

\* the user of some other call in progress, if there is one: what a handler
\* reads that keeps the caller in a variable all calls share
SharedUser(call) ==
    IF \E other \in InProgress : other.user \in Users /\ other.user # call.user
    THEN CHOOSE u \in Users : u # call.user
    ELSE call.user

\* HistoryDoc with the owner read from a variable all calls share
HistoryDocShared(call, response) ==
    [ userId         |-> SharedUser(call),
      url            |-> call.req.body.url,
      method         |-> call.req.body.method,
      headers        |-> call.req.body.headers,
      params         |-> call.req.body.params,
      body           |-> call.req.body.body,
      responseStatus |-> response.status,
      responseData   |-> response.data,
      createdAt      |-> now ]

\* the document POST /proxy hands to db.collection("history").add
HistoryDoc(call, response) ==
    [ userId         |-> call.user,
      url            |-> call.req.body.url,
      method         |-> call.req.body.method,
      headers        |-> call.req.body.headers,
      params         |-> call.req.body.params,
      body           |-> call.req.body.body,
      responseStatus |-> response.status,
      responseData   |-> response.data,
      createdAt      |-> now ]

\* ProxyRelayed recording the call whoever made it
ProxyRelayedAlways(call, response) ==
    LET got == [call EXCEPT !.response = <<response>>]
    IN  Await([got EXCEPT !.doc = HistoryDoc(got, response)], "histAdd")

\* POST /proxy from the axios response to the await on add, or to the reply
ProxyRelayed(call, response) ==
    LET got == [call EXCEPT !.response = <<response>>]
    IN  IF got.user # Null
        THEN Await([got EXCEPT !.doc = HistoryDoc(got, response)], "histAdd")
        ELSE Reply(got, 200, ProxyJson(response, Null))

\* the catch block of POST /proxy
ProxyCatch(call, message) ==
    Catch(call, 500, [success |-> FALSE, response |-> [error |-> message, requestId |-> Null]])

\* GET /history up to the await on the query
HistoryStart(call) ==
    IF call.user = Null THEN Reply(call, 200, <<>>) ELSE Await(call, "histQuery")

\* POST /collections up to the await on add
CollectionsPostStart(call) ==
    IF call.user = Null
    THEN Reply(call, 401, [error |-> "Authentication required"])
    ELSE IF Falsy(call.req.body.name)
    THEN Reply(call, 400, [error |-> "Name is required"])
    ELSE Await([call EXCEPT !.doc = [userId |-> call.user, name |-> call.req.body.name,
                                     createdAt |-> now]], "collAdd")

\* POST /collection-items up to the await on the ownership lookup
ItemsPostStart(call) ==
    IF call.user = Null
    THEN Reply(call, 401, [error |-> "Authentication required"])
    ELSE IF Falsy(call.req.body.collectionId) \/ Falsy(call.req.body.requestId)
    THEN Reply(call, 400, [error |-> "Missing fields"])
    ELSE Await(call, "collGet")

\* ItemsChecked asking only that the collection exists
ItemsCheckedExists(call, collDoc) ==
    IF collDoc = <<>>
    THEN Reply(call, 403, [error |-> "Collection does not belong to you"])
    ELSE Await([call EXCEPT !.doc = [userId |-> call.user,
                                     collectionId |-> call.req.body.collectionId,
                                     requestId |-> call.req.body.requestId,
                                     createdAt |-> now]], "itemAdd")

\* POST /collection-items from the looked-up collection to the await on add
ItemsChecked(call, collDoc) ==
    IF collDoc = <<>> \/ collDoc[1].userId # call.user
    THEN Reply(call, 403, [error |-> "Collection does not belong to you"])
    ELSE Await([call EXCEPT !.doc = [userId |-> call.user,
                                     collectionId |-> call.req.body.collectionId,
                                     requestId |-> call.req.body.requestId,
                                     createdAt |-> now]], "itemAdd")

\* GET /collections up to the await on the collections query
CollectionsGetStart(call) ==
    IF call.user = Null THEN Reply(call, 200, <<>>) ELSE Await(call, "collQuery")

\* GET /collections from its snapshot to the await on the item queries
CollectionsFanOut(call, docs) ==
    IF docs = <<>> THEN Reply(call, 200, <<>>)
    ELSE Await([call EXCEPT !.snapshot = docs], "itemsQuery")

\* express routing: the handler of the call's route
HandlerStart(call) ==
    LET r == call.req.route
    IN  CASE r = "GET /"                  -> Reply(call, 200, [message |-> "API-Assertify backend is running"])
          [] r = "POST /proxy"            -> ProxyStart(call)
          [] r = "GET /history"           -> HistoryStart(call)
          [] r = "POST /collections"      -> CollectionsPostStart(call)
          [] r = "POST /collection-items" -> ItemsPostStart(call)
          [] r = "GET /collections"       -> CollectionsGetStart(call)

\* verifyFirebaseToken from the settled oracle call on: req.user, then next()
Resolved(call, decoded, settled) ==
    HandlerStart([call EXCEPT !.user = decoded, !.oracle = settled, !.handled = TRUE])

\* verifyFirebaseToken up to next() or the await on the oracle
Middleware(call) ==
    IF ~IsBearer(call.req.auth)
    THEN Resolved(call, Null, "none")
    ELSE Await(call, "verifying")

(***************************************************************************)
(* The last reply of a GET route that no write has followed.  It is kept   *)
(* where replies are compared, and switched off elsewhere.                 *)
(***************************************************************************)
NoGets == [on |-> TRUE, got |-> <<>>]

\* the reply of a finished GET call shows one state of the store: its
\* snapshot still is what the collections query returns
Untorn(call) ==
    call.snapshot = <<>> \/ call.snapshot = CollectionsQuery(call.user, collections)

\* the finished GET call follows another of its route and identity, no write between
Repeats(call) ==
    /\ lastGet.on
    /\ lastGet.got # <<>>
    /\ lastGet.got[1].route = call.req.route
    /\ lastGet.got[1].user = call.user

\* lastGet after a step that leaves a call as new and wrote to the store or not
Observe(new, wrote) ==
    IF ~lastGet.on THEN lastGet
    ELSE IF wrote THEN NoGets
    ELSE IF new.pc = "done" /\ new.req.route \in GetRoutes
    THEN IF Untorn(new)
         THEN [on |-> TRUE, got |-> << [route |-> new.req.route, user |-> new.user,
                                        body |-> new.res.body, caught |-> new.caught,
                                        same |-> Repeats(new) /\ lastGet.got[1].body = new.res.body] >>]
         ELSE NoGets
    ELSE lastGet

\* one step of a call, which leaves it as new
Step(call, new, wrote) ==
    /\ calls' = (calls (-) SetToBag({call})) (+) SetToBag({new})
    /\ lastGet' = Observe(new, wrote)

(***************************************************************************)
(* Actions.                                                                *)
(***************************************************************************)
Init ==
    /\ calls = EmptyBag
    /\ history = <<>>
    /\ collections = <<>>
    /\ collection_items = <<>>
    /\ now = 0
    /\ lastGet = [on |-> FALSE]

\* no reply is on its way out: a reply leaves the server before anything else happens
Quiet == At("done") = {}

\* a request arrives while fewer than max calls are in progress:
\* verifyFirebaseToken runs up to next() or to its await
Arrive(r, max) ==
    /\ Quiet
    /\ BagCardinality(calls) < max
    /\ calls' = calls (+) SetToBag({Middleware(NewCall(r))})
    /\ lastGet' = Observe(Middleware(NewCall(r)), FALSE)
    /\ UNCHANGED <<history, collections, collection_items, now>>

\* verifyIdToken resolves with the decoded token
VerifyResolves(call) ==
    /\ Quiet
    /\ call.pc = "verifying"
    /\ TokenSubject(TokenOf(call.req.auth)) # Null
    /\ Step(call, Resolved(call, TokenSubject(TokenOf(call.req.auth)), "ok"), FALSE)
    /\ UNCHANGED <<history, collections, collection_items, now>>

\* VerifyRejects answering 401 in place of calling next()
VerifyRejectsDenied(call) ==
    /\ Quiet
    /\ call.pc = "verifying"
    /\ Step(call, Reply([call EXCEPT !.user = Null, !.oracle = "threw"], 401, [error |-> "Invalid token"]), FALSE)
    /\ UNCHANGED <<history, collections, collection_items, now>>

\* verifyIdToken rejects: the token is invalid, or the oracle is unreachable
VerifyRejects(call) ==
    /\ Quiet
    /\ call.pc = "verifying"
    /\ Step(call, Resolved(call, Null, "threw"), FALSE)
    /\ UNCHANGED <<history, collections, collection_items, now>>

\* axios resolves with the upstream response, whatever its status
AxiosResponds(call, response) ==
    /\ Quiet
    /\ call.pc = "axios"
    /\ Step(call, ProxyRelayed(call, response), FALSE)
    /\ UNCHANGED <<history, collections, collection_items, now>>

\* axios rejects: no HTTP response was obtained
AxiosFails(call) ==
    /\ Quiet
    /\ call.pc = "axios"
    /\ Step(call, ProxyCatch(call, "connect ECONNREFUSED"), FALSE)
    /\ UNCHANGED <<history, collections, collection_items, now>>

\* history.add resolves: the document is stored and POST /proxy replies
HistAddResolves(call) ==
    /\ Quiet
    /\ call.pc = "histAdd"
    /\ Len(history) < MaxHistory
    /\ history' = Append(history, Stored(call.doc, AutoId("h", history)))
    /\ Step(call, Reply(call, 200, ProxyJson(call.response[1], AutoId("h", history))), TRUE)
    /\ UNCHANGED <<collections, collection_items, now>>

\* history.add rejects: the catch block of POST /proxy replies
HistAddRejects(call) ==
    /\ Quiet
    /\ call.pc = "histAdd"
    /\ Step(call, ProxyCatch(call, "store unavailable"), FALSE)
    /\ UNCHANGED <<history, collections, collection_items, now>>

\* what a handler answers that collects the records in an array all calls share
Accumulated(call, fresh) ==
    IF Repeats(call) THEN lastGet.got[1].body \o fresh ELSE fresh

\* HistQueryResolves collecting the records in an array all calls share
HistQueryResolvesShared(call) ==
    /\ Quiet
    /\ call.pc = "histQuery"
    /\ Step(call, Reply(call, 200, Accumulated(call, HistoryView(HistoryQuery(call.user, history)))), FALSE)
    /\ UNCHANGED <<history, collections, collection_items, now>>

\* the history query resolves
HistQueryResolves(call) ==
    /\ Quiet
    /\ call.pc = "histQuery"
    /\ Step(call, Reply(call, 200, HistoryView(HistoryQuery(call.user, history))), FALSE)
    /\ UNCHANGED <<history, collections, collection_items, now>>

\* the history query rejects: GET /history answers an empty array
HistQueryRejects(call) ==
    /\ Quiet
    /\ call.pc = "histQuery"
    /\ Step(call, Catch(call, 200, <<>>), FALSE)
    /\ UNCHANGED <<history, collections, collection_items, now>>

\* collections.add resolves
CollAddResolves(call) ==
    /\ Quiet
    /\ call.pc = "collAdd"
    /\ Len(collections) < MaxCollections
    /\ collections' = Append(collections, Stored(call.doc, AutoId("c", collections)))
    /\ Step(call, Reply(call, 200, [id |-> AutoId("c", collections), name |-> call.req.body.name]), TRUE)
    /\ UNCHANGED <<history, collection_items, now>>

\* collections.add rejects
CollAddRejects(call) ==
    /\ Quiet
    /\ call.pc = "collAdd"
    /\ Step(call, Catch(call, 500, [error |-> "store unavailable"]), FALSE)
    /\ UNCHANGED <<history, collections, collection_items, now>>

\* the ownership lookup of POST /collection-items resolves
CollGetResolves(call) ==
    /\ Quiet
    /\ call.pc = "collGet"
    /\ Step(call, ItemsChecked(call, DocGet(call.req.body.collectionId, collections)), FALSE)
    /\ UNCHANGED <<history, collections, collection_items, now>>

\* the ownership lookup rejects
CollGetRejects(call) ==
    /\ Quiet
    /\ call.pc = "collGet"
    /\ Step(call, Catch(call, 500, [error |-> "store unavailable"]), FALSE)
    /\ UNCHANGED <<history, collections, collection_items, now>>

\* collection_items.add resolves
ItemAddResolves(call) ==
    /\ Quiet
    /\ call.pc = "itemAdd"
    /\ Len(collection_items) < MaxItems
    /\ collection_items' = Append(collection_items, Stored(call.doc, AutoId("i", collection_items)))
    /\ Step(call, Reply(call, 200, [id |-> AutoId("i", collection_items)]), TRUE)
    /\ UNCHANGED <<history, collections, now>>

\* collection_items.add rejects
ItemAddRejects(call) ==
    /\ Quiet
    /\ call.pc = "itemAdd"
    /\ Step(call, Catch(call, 500, [error |-> "store unavailable"]), FALSE)
    /\ UNCHANGED <<history, collections, collection_items, now>>

\* the collections query of GET /collections resolves
CollQueryResolves(call) ==
    /\ Quiet
    /\ call.pc = "collQuery"
    /\ Step(call, CollectionsFanOut(call, CollectionsQuery(call.user, collections)), FALSE)
    /\ UNCHANGED <<history, collections, collection_items, now>>

\* the collections query rejects: GET /collections answers an empty array
CollQueryRejects(call) ==
    /\ Quiet
    /\ call.pc = "collQuery"
    /\ Step(call, Catch(call, 200, <<>>), FALSE)
    /\ UNCHANGED <<history, collections, collection_items, now>>

\* the item queries of Promise.all resolve
ItemsQueryResolves(call) ==
    /\ Quiet
    /\ call.pc = "itemsQuery"
    /\ Step(call, Reply(call, 200, CollectionsView(call.snapshot, call.user, collection_items)), FALSE)
    /\ UNCHANGED <<history, collections, collection_items, now>>

\* one of the item queries rejects
ItemsQueryRejects(call) ==
    /\ Quiet
    /\ call.pc = "itemsQuery"
    /\ Step(call, Catch(call, 200, <<>>), FALSE)
    /\ UNCHANGED <<history, collections, collection_items, now>>

\* the reply of a call has left the server: the call is over
Deliver(call) ==
    /\ call.pc = "done"
    /\ calls' = calls (-) SetToBag({call})
    /\ UNCHANGED <<history, collections, collection_items, now, lastGet>>

\* the relay and the collection routes, one call at a time
Next ==
    \/ \E r \in Requests : Arrive(r, 1)
    \/ \E call \in InProgress : VerifyResolves(call)
    \/ \E call \in InProgress : VerifyRejects(call)
    \/ \E call \in InProgress, response \in OkResponses : AxiosResponds(call, response)
    \/ \E call \in InProgress : AxiosFails(call)
    \/ \E call \in InProgress : HistAddResolves(call)
    \/ \E call \in InProgress : HistAddRejects(call)
    \/ \E call \in InProgress : CollAddResolves(call)
    \/ \E call \in InProgress : CollAddRejects(call)
    \/ \E call \in InProgress : CollGetResolves(call)
    \/ \E call \in InProgress : CollGetRejects(call)
    \/ \E call \in InProgress : ItemAddResolves(call)
    \/ \E call \in InProgress : ItemAddRejects(call)
    \/ \E call \in InProgress : CollQueryResolves(call)
    \/ \E call \in InProgress : CollQueryRejects(call)
    \/ \E call \in InProgress : ItemsQueryResolves(call)
    \/ \E call \in InProgress : ItemsQueryRejects(call)
    \/ \E call \in InProgress : Deliver(call)

Spec == Init /\ [][Next]_vars

\* POST /collections and POST /collection-items, with calls in progress side by side
NextItems ==
    \/ \E r \in ItemRequests : Arrive(r, MaxInterleaved)
    \/ \E call \in InProgress : VerifyResolves(call)
    \/ \E call \in InProgress : VerifyRejects(call)
    \/ \E call \in InProgress : CollAddResolves(call)
    \/ \E call \in InProgress : CollAddRejects(call)
    \/ \E call \in InProgress : CollGetResolves(call)
    \/ \E call \in InProgress : CollGetRejects(call)
    \/ \E call \in InProgress : ItemAddResolves(call)
    \/ \E call \in InProgress : ItemAddRejects(call)
    \/ \E call \in InProgress : Deliver(call)

SpecItems == Init /\ [][NextItems]_vars

\* POST /proxy alone, with calls in progress side by side
NextProxy ==
    \/ \E r \in ProxyRequests : Arrive(r, MaxInterleaved)
    \/ \E call \in InProgress : VerifyResolves(call)
    \/ \E call \in InProgress : VerifyRejects(call)
    \/ \E call \in InProgress, response \in UpstreamResponses : AxiosResponds(call, response)
    \/ \E call \in InProgress : AxiosFails(call)
    \/ \E call \in InProgress : HistAddResolves(call)
    \/ \E call \in InProgress : HistAddRejects(call)
    \/ \E call \in InProgress : Deliver(call)

SpecProxy == Init /\ [][NextProxy]_vars

(***************************************************************************)
(* GET /history over stores that many relayed calls have filled.           *)
(***************************************************************************)
\* who made the i-th recorded call: user A alone, A and B in turn, B once and then A
BulkOwner(p, i) ==
    IF p = 1 THEN "A"
    ELSE IF p = 2 THEN (IF i % 2 = 1 THEN "A" ELSE "B")
    ELSE IF i = 1 THEN "B" ELSE "A"

\* when the i-th recorded call read the clock: one tick apart, all within one
\* tick, ten to a tick, or each pair of neighbours stored in the other order
BulkTime(q, i) ==
    IF q = 1 THEN i
    ELSE IF q = 2 THEN 0
    ELSE IF q = 3 THEN i \div 10
    ELSE IF i % 2 = 1 THEN i + 1 ELSE i - 1

\* the history n relayed calls leave behind
BulkHistory(n, p, q) ==
    [ i \in 1..n |->
        [ id             |-> "h" \o ToString(i),
          userId         |-> BulkOwner(p, i),
          url            |-> "http://up/a",
          method         |-> "get",
          headers        |-> <<>>,
          params         |-> SomeParams,
          body           |-> Null,
          responseStatus |-> 200,
          responseData   |-> "upstream body",
          createdAt      |-> BulkTime(q, i) ] ]

InitHistory ==
    /\ calls = EmptyBag
    /\ \E n \in 0..MaxBulk, p \in 1..3, q \in 1..4 : history = BulkHistory(n, p, q)
    /\ collections = <<>>
    /\ collection_items = <<>>
    /\ now = MaxBulk + 1
    /\ lastGet = [on |-> FALSE]

NextHistory ==
    \/ \E r \in HistoryRequests : Arrive(r, 1)
    \/ \E call \in InProgress : VerifyResolves(call)
    \/ \E call \in InProgress : VerifyRejects(call)
    \/ \E call \in InProgress : HistQueryResolves(call)
    \/ \E call \in InProgress : HistQueryRejects(call)
    \/ \E call \in InProgress : Deliver(call)

SpecHistory == InitHistory /\ [][NextHistory]_vars

(***************************************************************************)
(* The two GET routes, the writes between them, and the replies compared.  *)
(***************************************************************************)
InitRead ==
    /\ calls = EmptyBag
    /\ history = <<>>
    /\ collections = <<>>
    /\ collection_items = <<>>
    /\ now = 0
    /\ lastGet = NoGets

NextRead ==
    \/ \E r \in ReadRequests : Arrive(r, 1)
    \/ \E call \in InProgress : VerifyResolves(call)
    \/ \E call \in InProgress : VerifyRejects(call)
    \/ \E call \in InProgress, response \in OkResponses : AxiosResponds(call, response)
    \/ \E call \in InProgress : AxiosFails(call)
    \/ \E call \in InProgress : HistAddResolves(call)
    \/ \E call \in InProgress : HistAddRejects(call)
    \/ \E call \in InProgress : HistQueryResolves(call)
    \/ \E call \in InProgress : HistQueryRejects(call)
    \/ \E call \in InProgress : CollAddResolves(call)
    \/ \E call \in InProgress : CollAddRejects(call)
    \/ \E call \in InProgress : CollGetResolves(call)
    \/ \E call \in InProgress : CollGetRejects(call)
    \/ \E call \in InProgress : ItemAddResolves(call)
    \/ \E call \in InProgress : ItemAddRejects(call)
    \/ \E call \in InProgress : CollQueryResolves(call)
    \/ \E call \in InProgress : CollQueryRejects(call)
    \/ \E call \in InProgress : ItemsQueryResolves(call)
    \/ \E call \in InProgress : ItemsQueryRejects(call)
    \/ \E call \in InProgress : Deliver(call)

SpecRead == InitRead /\ [][NextRead]_vars

(***************************************************************************)
(* Properties of POST /proxy.                                              *)
(***************************************************************************)
\* the calls whose reply has just been sent: at most one, and the stores are
\* as the step that sent the reply left them
Finished == At("done")

\* the reply of a POST /proxy call carries the outcome the upstream server gave
CarriesOutcome(call) ==
    /\ call.res.http # 500
    /\ "response" \in DOMAIN call.res.body
    /\ "status" \in DOMAIN call.res.body.response
    /\ call.res.body.response.status = call.response[1].status
    /\ call.res.body.response.data = call.response[1].data

\* C1: when the outbound request of an authenticated POST /proxy obtained a
\* response and the insert into history then failed, the reply still carries
\* the upstream status and body, with requestId null, and is no 500.
C1_PersistenceFailureKeepsOutcome ==
    \A call \in Finished :
        (/\ call.req.route = "POST /proxy"
         /\ call.user \in Users
         /\ call.response # <<>>
         /\ call.caught)
        => /\ CarriesOutcome(call)
           /\ call.res.body.response.requestId = Null

\* C2: whenever the outbound request of a POST /proxy obtained a response,
\* whatever its status, the reply carries exactly that status and that body,
\* and is not the 500 outcome.
C2_StatusPassthrough ==
    \A call \in Finished :
        (call.req.route = "POST /proxy" /\ call.response # <<>>) => CarriesOutcome(call)

\* C3: the step that completes a POST /proxy whose token verified to U and
\* that succeeded end-to-end adds exactly one row to history; the row has a
\* fresh id, owner U, the url, method, headers, params and body of the
\* request and the status and body of the upstream response, and the reply
\* carries the row's id as requestId.
C3_AuthenticatedRecording ==
    [][\A call \in Finished' :
          (/\ call.req.route = "POST /proxy"
           /\ call.oracle = "ok"
           /\ call.res.http = 200)
          => LET U == TokenSubject(TokenOf(call.req.auth))
                 row == history'[Len(history')]
             IN  /\ Len(history') = Len(history) + 1
                 /\ SubSeq(history', 1, Len(history)) = history
                 /\ row.id \notin IdsOf(history)
                 /\ row.userId = U
                 /\ row.url = call.req.body.url
                 /\ row.method = call.req.body.method
                 /\ row.headers = call.req.body.headers
                 /\ row.params = call.req.body.params
                 /\ row.body = call.req.body.body
                 /\ row.responseStatus = call.response[1].status
                 /\ row.responseData = call.response[1].data
                 /\ call.res.body.response.requestId = row.id
                 /\ CarriesOutcome(call)
      ]_vars

\* an authenticated call has just succeeded while a call of the other user is in progress
C3_Witness ==
    \E call \in Finished :
        /\ call.req.route = "POST /proxy"
        /\ call.oracle = "ok"
        /\ call.res.http = 200
        /\ call.res.body.response.requestId \in IdsOf(history)
        /\ \E other \in InProgress : other.user \in Users /\ other.user # call.user

\* the body of the call lacks url or method
Invalid(call) ==
    /\ call.req.route = "POST /proxy"
    /\ Falsy(call.req.body.url) \/ Falsy(call.req.body.method)

\* C7: a POST /proxy whose url or method is missing or empty is answered 400
\* as soon as its handler runs, whoever the caller is; nothing was dispatched
\* to axios for it, and the step that answers it leaves history as it was.
C7_ValidationRejects ==
    [][/\ \A call \in InProgress' : (Invalid(call) /\ call.handled) => call.pc = "done"
       /\ \A call \in Finished' :
             Invalid(call) => /\ call.res.http = 400
                              /\ call.sent = <<>>
                              /\ call.response = <<>>
                              /\ history' = history
      ]_vars

\* an authenticated call without url has just been answered 400
C7_Witness ==
    \E call \in Finished :
        /\ Invalid(call)
        /\ call.user \in Users
        /\ call.res.http = 400

(***************************************************************************)
(* Properties of the identity middleware and of anonymous callers.         *)
(***************************************************************************)
\* C8: a call whose authorization header is absent or is no Bearer header, or
\* whose token the oracle rejects or fails on, has req.user null and is
\* passed to its route handler; no reply comes from the middleware itself.
C8_IdentityNeverErrors ==
    \A call \in InProgress :
        /\ ~IsBearer(call.req.auth) => (call.user = Null /\ call.handled)
        /\ call.oracle = "threw" => (call.user = Null /\ call.handled)
        /\ call.oracle = "ok" => (call.user = TokenSubject(TokenOf(call.req.auth)) /\ call.handled)
        /\ call.pc # "verifying" => call.handled
        /\ call.handled => call.user \in Identities

\* the oracle failed on a token of user A, and the call was answered by its handler
C8_Witness ==
    \E call \in Finished :
        /\ call.oracle = "threw"
        /\ TokenSubject(TokenOf(call.req.auth)) = "A"
        /\ call.handled
        /\ call.user = Null

\* the requestId of a reply of POST /proxy; a reply without the member reads as null
RequestIdOf(call) ==
    IF "response" \in DOMAIN call.res.body THEN call.res.body.response.requestId ELSE Null

\* every stored row has a user as its owner
OwnedRows ==
    /\ \A i \in 1..Len(history) : history[i].userId \in Users
    /\ \A i \in 1..Len(collections) : collections[i].userId \in Users
    /\ \A i \in 1..Len(collection_items) : collection_items[i].userId \in Users

NotOwned(call) ==
    /\ call.req.route = "POST /collection-items"
    /\ call.user \in Users
    /\ ~Falsy(call.req.body.collectionId)
    /\ ~Falsy(call.req.body.requestId)
    /\ \A k \in 1..Len(collections) :
          collections[k].id = call.req.body.collectionId => collections[k].userId # call.user

\* every item has the owner of the collection it references
ItemsFollowCollections ==
    \A i \in 1..Len(collection_items) :
        \E k \in 1..Len(collections) :
            /\ collections[k].id = collection_items[i].collectionId
            /\ collections[k].userId = collection_items[i].userId

\* C5 as stated: a call naming a collection that is not the caller's is
\* answered 403 and adds no item; every item has the owner of its collection.
C5_DeniedWith403 ==
    [][/\ \A call \in Finished' :
             NotOwned(call) => /\ call.res.http = 403
                               /\ collection_items' = collection_items
       /\ ItemsFollowCollections'
      ]_vars

\* C5: a call naming a collection that is not the caller's adds no item; it
\* is answered 403 when the ownership lookup answers and 500 when the lookup
\* itself fails; every item has the owner of the collection it references.
C5_DeniedOrFailed ==
    [][/\ \A call \in Finished' :
             NotOwned(call) => /\ call.res.http = (IF call.caught THEN 500 ELSE 403)
                               /\ collection_items' = collection_items
       /\ ItemsFollowCollections'
      ]_vars

\* a user has just been denied an item in a collection of the other user
C5_Witness ==
    \E call \in Finished :
        /\ NotOwned(call)
        /\ call.res.http = 403
        /\ call.req.body.collectionId \in IdsOf(collections)

(***************************************************************************)
(* Properties of GET /history.                                             *)
(***************************************************************************)
\* C6: the reply to GET /history of a user U holds at most 50 records, each
\* of them a row of history that U owns, in descending order of createdAt.
C6_HistoryScoping ==
    \A call \in Finished :
        (call.req.route = "GET /history" /\ call.user \in Users)
        => LET got == call.res.body
           IN  /\ Len(got) <= 50
               /\ \A i \in 1..Len(got) :
                     \E k \in 1..Len(history) :
                         /\ history[k].id = got[i].id
                         /\ history[k].createdAt = got[i].createdAt
                         /\ history[k].userId = call.user
               /\ \A i \in 1..(Len(got) - 1) : got[i].createdAt >= got[i + 1].createdAt

\* user A owns more than 50 rows of distinct times, user B owns one, and A
\* has just been answered 50 records
C6_Witness ==
    \E call \in Finished :
        /\ call.req.route = "GET /history"
        /\ call.user = "A"
        /\ ~call.caught
        /\ Len(call.res.body) = 50
        /\ call.res.body[1].createdAt > call.res.body[50].createdAt
        /\ \E k \in 1..Len(history) : history[k].userId = "B"

Created(call) ==
    LET row == collections[Len(collections)]
    IN  /\ call.res.body.id = row.id
        /\ call.res.body.name = call.req.body.name
        /\ row.name = call.req.body.name
        /\ row.userId = call.user

\* the reply to a successful POST /collection-items names the item just stored for the caller
Filed(call) ==
    LET row == collection_items[Len(collection_items)]
    IN  /\ call.res.body.id = row.id
        /\ row.collectionId = call.req.body.collectionId
        /\ row.requestId = call.req.body.requestId
        /\ row.userId = call.user

\* the requests the user has filed in the collection
FiledIn(id, uid) ==
    { i \in 1..Len(collection_items) :
        collection_items[i].collectionId = id /\ collection_items[i].userId = uid }

\* the reply to GET /collections lists the caller's collections and no other,
\* each with its name and the requests the caller filed in it
ListsOwn(call) ==
    LET got == call.res.body
        mine == { k \in 1..Len(collections) : collections[k].userId = call.user }
    IN  /\ Len(got) = Cardinality(mine)
        /\ \A k \in mine :
              \E j \in 1..Len(got) :
                  /\ got[j].id = collections[k].id
                  /\ got[j].name = collections[k].name
                  /\ Len(got[j].items) = Cardinality(FiledIn(got[j].id, call.user))
                  /\ \A i \in FiledIn(got[j].id, call.user) :
                        \E x \in 1..Len(got[j].items) : got[j].items[x] = collection_items[i].requestId

\* what the scenario says of every reply but that of POST /collections
ScenarioReplies(call) ==
    /\ (call.req.route = "POST /proxy" /\ call.user \in Users /\ call.res.http = 200)
          => call.res.body.response.requestId = history[Len(history)].id
    /\ (call.req.route = "POST /collection-items" /\ call.res.http = 200) => Filed(call)
    /\ (call.req.route = "GET /collections" /\ call.user \in Users /\ ~call.caught) => ListsOwn(call)

====
